---- MODULE Spec2Model ----
(***************************************************************************)
(* Model of ecfw::world (include/ecfw/core/world.hpp): the entity          *)
(* directory (m_versions, m_free_list), the type registry                  *)
(* (m_type_positions), the presence bitsets (m_metabuffers), the component *)
(* vectors (m_buffers), the group cache (m_groups) and the view handles    *)
(* handed out by world::view.                                              *)
(*                                                                         *)
(* An entity id is the 64-bit value version:32 | index:32; it is modelled  *)
(* as the pair <<version, index>>.  A boost::dynamic_bitset is modelled as *)
(* a sequence of BOOLEAN (bit p is element p+1), a std::vector<T> as a     *)
(* sequence of values, a dtl::sparse_set as its dense array.  A failed     *)
(* assert aborts the program, so an operation is enabled only when all the *)
(* asserts it executes pass.                                               *)
(***************************************************************************)
EXTENDS Integers, Sequences, FiniteSets, TLC

\* ------------------------------------------------------------------ bounds
\* Directory slots the model creates at most (stands for the 0xFFFFFFFF of
\* world::create's assert).
MaxSlots == 2
\* Largest version a slot reaches (stands for the 0xFFFFFFFF of
\* world::destroy's assert).
MaxVersion == 2
\* Longest free list the model builds.
MaxFree == 2
\* Component values are 0..MaxVal.
MaxVal == 1
\* Every behaviour makes at most MaxCalls calls on the world.
MaxCalls == 4
\* The scenario of the existing-views tests runs with 4 * ScenarioQuarter
\* entities in place of the tests' 100.
ScenarioQuarter == 1
\* A parallel loop over a view runs on NumThreads threads.
NumThreads == 2
\* The largest number of elements per chunk of a chunked_buffer (uint32_t).
MaxChunk == 2
\* The largest object size of a chunked_buffer (uint32_t).
MaxObject == 2
\* The largest index given to a chunked_buffer (uint32_t).
MaxIndex == 3

\* --------------------------------------------------------------- universes
\* The component types of the tests (struct C0, struct C1).
Types == {"C0", "C1"}
\* T{}: the tests' components default to value false.
DefaultValue == 0
Values == 0..MaxVal
\* "no constructor arguments"
NoArgs == -1
Args == Values \cup {NoArgs}
NoId == <<-1, -1>>
\* Every id a caller can pass: also stale, future and out-of-range ones.
IdUniverse == {<<v, i>> : v \in 0..(MaxVersion + 1), i \in 0..MaxSlots}
\* The duplicate-free type lists a template call can name.
TypeLists == {<<t>> : t \in Types} \cup
             {p \in {<<t, u>> : t \in Types, u \in Types} : p[1] # p[2]}

VARIABLES m_free_list, m_versions, m_type_positions, m_metabuffers,
          m_buffers, m_groups, views, last,
          hist_alive, hist_destroyed, hist_owned, hist_owned_orphan,
          hist_value, hist_freed, hist_referenced, calls, par,
          chunked_buffer

vars == <<m_free_list, m_versions, m_type_positions, m_metabuffers,
          m_buffers, m_groups, views, last,
          hist_alive, hist_destroyed, hist_owned, hist_owned_orphan,
          hist_value, hist_freed, hist_referenced, calls, par,
          chunked_buffer>>

\* The elements of a list.
TypesOf(ts) == {ts[k] : k \in 1..Len(ts)}

\* ---------------------------------------------------------- entity ids
make_entity(ver, idx) == <<ver, idx>>
index_from_entity(eid) == eid[2]
version_from_entity(eid) == eid[1]

\* ---------------------------------------------------------- bitsets
dtl_contains(bitset, position) ==
    position < Len(bitset) /\ bitset[position + 1]

\* dynamic_bitset::resize(n): new bits are false.
bitset_resize(bitset, n) ==
    [i \in 1..n |-> IF i <= Len(bitset) THEN bitset[i] ELSE FALSE]

\* std::vector<T>::resize(n): new elements are value-initialised.
vector_resize(buffer, n) ==
    [i \in 1..n |-> IF i <= Len(buffer) THEN buffer[i] ELSE DefaultValue]

\* ---------------------------------------------------------- sparse_set
sparse_contains(group, eid) == \E k \in 1..Len(group) : group[k] = eid

sparse_insert(group, eid) ==
    IF sparse_contains(group, eid) THEN group ELSE Append(group, eid)

\* erase swaps the element with the last one and pops; erasing an absent
\* element is a no-op.
sparse_erase(group, eid) ==
    IF ~sparse_contains(group, eid) THEN group
    ELSE LET k == CHOOSE j \in 1..Len(group) : group[j] = eid
             n == Len(group)
         IN  [j \in 1..(n - 1) |-> IF j = k THEN group[n] ELSE group[j]]

sparse_ids(group) == {group[k] : k \in 1..Len(group)}

\* ---------------------------------------------------------- the world
\* The world object as a record of its data members.
World == [m_free_list |-> m_free_list, m_versions |-> m_versions,
          m_type_positions |-> m_type_positions,
          m_metabuffers |-> m_metabuffers, m_buffers |-> m_buffers,
          m_groups |-> m_groups]

valid(w, eid) ==
    LET idx == index_from_entity(eid)
        ver == version_from_entity(eid)
    IN  /\ idx >= 0
        /\ idx < Len(w.m_versions)
        /\ w.m_versions[idx + 1] = ver

contains(w, T) == T \in DOMAIN w.m_type_positions

\* has that looks at the slot's bit whatever the id's version.
has_any_version(w, T, eid) ==
    IF ~contains(w, T) THEN FALSE
    ELSE dtl_contains(w.m_metabuffers[w.m_type_positions[T] + 1],
                      index_from_entity(eid))

has(w, T, eid) ==
    IF ~valid(w, eid) \/ ~contains(w, T) THEN FALSE
    ELSE LET type_position == w.m_type_positions[T]
             idx == index_from_entity(eid)
         IN  dtl_contains(w.m_metabuffers[type_position + 1], idx)

\* has<T, Ts...>: the conjunction over the listed types.
has_all(w, ts, eid) == \A k \in 1..Len(ts) : has(w, ts[k], eid)

\* get<T>(eid) const: requires has<T>(eid).
get(w, T, eid) ==
    w.m_buffers[w.m_type_positions[T] + 1][index_from_entity(eid) + 1]

\* count<T, Ts...>(): counts the slots whose current id has every type.
count(w, ts) ==
    Cardinality({i \in 0..(Len(w.m_versions) - 1) :
                    has_all(w, ts, make_entity(w.m_versions[i + 1], i))})

\* accommodate<T>(): registers T at the next position on first reference.
accommodate(w, T) ==
    IF T \in DOMAIN w.m_type_positions THEN w
    ELSE [w EXCEPT
            !.m_type_positions =
                w.m_type_positions @@ (T :> Cardinality(DOMAIN w.m_type_positions)),
            !.m_buffers = Append(w.m_buffers, <<>>),
            !.m_metabuffers = Append(w.m_metabuffers, <<>>)]

\* T(args...) / T{args...}
construct(arg) == IF arg = NoArgs THEN DefaultValue ELSE arg

\* The set bits of a filter, as type positions (find_first / find_next).
filter_bits(filter) == {p \in 0..(Len(filter) - 1) : filter[p + 1]}

\* assign that admits eid only to the groups that ask for nothing but the
\* assigned type.
assign_groups_alone(w, type_position, eid) ==
    [filter \in DOMAIN w.m_groups |->
        IF filter_bits(filter) = {type_position}
        THEN sparse_insert(w.m_groups[filter], eid)
        ELSE w.m_groups[filter]]

\* assign that never admits the entity to a group.
assign_groups_none(w, type_position, eid) == w.m_groups

\* assign that admits eid to every group that asks for the assigned type,
\* whatever else the group asks for.
assign_groups_any(w, type_position, eid) ==
    [filter \in DOMAIN w.m_groups |->
        IF dtl_contains(filter, type_position)
        THEN sparse_insert(w.m_groups[filter], eid)
        ELSE w.m_groups[filter]]

\* assign: the loop over m_groups that admits eid to the groups it now fits.
assign_groups(w, type_position, eid) ==
    LET idx == index_from_entity(eid) IN
    [filter \in DOMAIN w.m_groups |->
        IF sparse_contains(w.m_groups[filter], eid) THEN w.m_groups[filter]
        ELSE IF ~dtl_contains(filter, type_position) THEN w.m_groups[filter]
        ELSE IF \A i \in filter_bits(filter) :
                    dtl_contains(w.m_metabuffers[i + 1], idx)
             THEN sparse_insert(w.m_groups[filter], eid)
             ELSE w.m_groups[filter]]

assign_pre(w, T, eid) == valid(w, eid) /\ ~has(w, T, eid)

\* assign that constructs the component only in a slot it has just grown.
assign_keep_stale(w, T, eid, arg) ==
    LET w1 == accommodate(w, T)
        type_position == w1.m_type_positions[T]
        idx == index_from_entity(eid)
        metabuffer == w1.m_metabuffers[type_position + 1]
        resized == IF idx >= Len(metabuffer)
                   THEN bitset_resize(metabuffer, idx + 1) ELSE metabuffer
        w2 == [w1 EXCEPT !.m_metabuffers[type_position + 1] =
                            [resized EXCEPT ![idx + 1] = TRUE]]
        w3 == [w2 EXCEPT !.m_groups = assign_groups(w2, type_position, eid)]
        buffer == w3.m_buffers[type_position + 1]
    IN  IF idx >= Len(buffer)
        THEN [w3 EXCEPT !.m_buffers[type_position + 1] =
                [vector_resize(buffer, idx + 1) EXCEPT
                    ![idx + 1] = construct(arg)]]
        ELSE w3

\* assign<T>(eid, args...)
assign(w, T, eid, arg) ==
    LET w1 == accommodate(w, T)
        type_position == w1.m_type_positions[T]
        idx == index_from_entity(eid)
        metabuffer == w1.m_metabuffers[type_position + 1]
        resized == IF idx >= Len(metabuffer)
                   THEN bitset_resize(metabuffer, idx + 1) ELSE metabuffer
        w2 == [w1 EXCEPT !.m_metabuffers[type_position + 1] =
                            [resized EXCEPT ![idx + 1] = TRUE]]
        w3 == [w2 EXCEPT !.m_groups = assign_groups(w2, type_position, eid)]
        buffer == w3.m_buffers[type_position + 1]
        grown == IF idx >= Len(buffer)
                 THEN vector_resize(buffer, idx + 1) ELSE buffer
    IN  [w3 EXCEPT !.m_buffers[type_position + 1] =
                        [grown EXCEPT ![idx + 1] = construct(arg)]]

\* (assign<Ts>(entity), ...): left to right, each without arguments.
RECURSIVE assign_each_pre(_, _, _)
assign_each_pre(w, ts, eid) ==
    IF ts = <<>> THEN TRUE
    ELSE /\ assign_pre(w, Head(ts), eid)
         /\ assign_each_pre(assign(w, Head(ts), eid, NoArgs), Tail(ts), eid)

RECURSIVE assign_each(_, _, _)
assign_each(w, ts, eid) ==
    IF ts = <<>> THEN w
    ELSE assign_each(assign(w, Head(ts), eid, NoArgs), Tail(ts), eid)

\* remove that leaves the groups as they were.
remove_groups_stale(w, type_position, eid) == w.m_groups

\* remove that evicts eid from every cached group.
remove_groups_every(w, type_position, eid) ==
    [filter \in DOMAIN w.m_groups |-> sparse_erase(w.m_groups[filter], eid)]

\* remove: the loop over m_groups that evicts eid from the groups needing T.
remove_groups(w, type_position, eid) ==
    [filter \in DOMAIN w.m_groups |->
        IF dtl_contains(filter, type_position)
        THEN sparse_erase(w.m_groups[filter], eid)
        ELSE w.m_groups[filter]]

remove_pre(w, T, eid) == valid(w, eid) /\ has(w, T, eid)

\* remove that leaves the presence bit set.
remove_keep_bit(w, T, eid) ==
    [w EXCEPT !.m_groups = remove_groups(w, w.m_type_positions[T], eid)]

\* remove<T>(eid)
remove(w, T, eid) ==
    LET type_position == w.m_type_positions[T]
        idx == index_from_entity(eid)
        w1 == [w EXCEPT !.m_metabuffers[type_position + 1][idx + 1] = FALSE]
    IN  [w1 EXCEPT !.m_groups = remove_groups(w1, type_position, eid)]

\* orphan that also hands the slot back to the free list.
orphan_freeing(w, eid) ==
    LET idx == index_from_entity(eid) IN
    [w EXCEPT
        !.m_metabuffers =
            [p \in 1..Len(w.m_metabuffers) |->
                IF dtl_contains(w.m_metabuffers[p], idx)
                THEN [w.m_metabuffers[p] EXCEPT ![idx + 1] = FALSE]
                ELSE w.m_metabuffers[p]],
        !.m_groups =
            [filter \in DOMAIN w.m_groups |->
                sparse_erase(w.m_groups[filter], eid)],
        !.m_free_list = Append(w.m_free_list, idx)]

\* orphan(eid): requires valid(eid).
orphan(w, eid) ==
    LET idx == index_from_entity(eid) IN
    [w EXCEPT
        !.m_metabuffers =
            [p \in 1..Len(w.m_metabuffers) |->
                IF dtl_contains(w.m_metabuffers[p], idx)
                THEN [w.m_metabuffers[p] EXCEPT ![idx + 1] = FALSE]
                ELSE w.m_metabuffers[p]],
        !.m_groups =
            [filter \in DOMAIN w.m_groups |->
                sparse_erase(w.m_groups[filter], eid)]]

\* destroy without the assert on the version.
destroy_pre_unbounded(w, eid) == valid(w, eid)

destroy_pre(w, eid) ==
    valid(w, eid) /\ version_from_entity(eid) < MaxVersion

\* destroy that frees the slot without revising its version.
destroy_no_bump(w, eid) ==
    LET w1 == orphan(w, eid)
    IN  [w1 EXCEPT !.m_free_list =
                        Append(w1.m_free_list, index_from_entity(eid))]

\* destroy(eid); the version is a 32-bit unsigned whose largest value
\* MaxVersion stands for.
destroy(w, eid) ==
    LET w1 == orphan(w, eid)
        idx == index_from_entity(eid)
        ver == version_from_entity(eid)
    IN  [w1 EXCEPT !.m_versions[idx + 1] = (ver + 1) % (MaxVersion + 1),
                   !.m_free_list = Append(w1.m_free_list, idx)]

\* create that checks the size of the directory before it looks at the
\* free list.
create_pre_strict(w) == Len(w.m_versions) < MaxSlots

create_pre(w) == w.m_free_list # <<>> \/ Len(w.m_versions) < MaxSlots

\* create that hands out the bare index of a recycled slot.
create_entity_v0(w) ==
    IF w.m_free_list # <<>>
    THEN make_entity(0, w.m_free_list[Len(w.m_free_list)])
    ELSE make_entity(0, Len(w.m_versions))

\* create that reuses the index freed first.
create_entity_fifo(w) ==
    IF w.m_free_list # <<>>
    THEN LET idx == w.m_free_list[1]
         IN  make_entity(w.m_versions[idx + 1], idx)
    ELSE make_entity(0, Len(w.m_versions))

\* create<>(): the id it returns.
create_entity(w) ==
    IF w.m_free_list # <<>>
    THEN LET idx == w.m_free_list[Len(w.m_free_list)]
         IN  make_entity(w.m_versions[idx + 1], idx)
    ELSE make_entity(0, Len(w.m_versions))

\* create whose fresh slot starts at version 1.
create_world_v1(w) ==
    IF w.m_free_list # <<>>
    THEN [w EXCEPT !.m_free_list =
                        SubSeq(w.m_free_list, 1, Len(w.m_free_list) - 1)]
    ELSE [w EXCEPT !.m_versions = Append(w.m_versions, 1)]

\* create<>(): the directory after it.
create_world(w) ==
    IF w.m_free_list # <<>>
    THEN [w EXCEPT !.m_free_list =
                        SubSeq(w.m_free_list, 1, Len(w.m_free_list) - 1)]
    ELSE [w EXCEPT !.m_versions = Append(w.m_versions, 0)]

\* A filter sized by the last requested position instead of the largest:
\* the padding depends on the order of the request.
make_filter_ordered(type_positions) ==
    LET requested == TypesOf(type_positions)
        largest_type_position ==
            CHOOSE p \in requested : \A q \in requested : q <= p
        size == largest_type_position + 1 +
                (largest_type_position - type_positions[Len(type_positions)])
    IN  [i \in 1..size |-> (i - 1) \in requested]

\* group_by: the filter built from the requested type positions, a bitset
\* of largest + 1 bits with the requested positions set.
make_filter(type_positions) ==
    LET requested == TypesOf(type_positions)
        largest_type_position ==
            CHOOSE p \in requested : \A q \in requested : q <= p
    IN  [i \in 1..(largest_type_position + 1) |-> (i - 1) \in requested]

\* A scan that builds the ids from the index alone (version 0).
RECURSIVE build_group_v0(_, _, _, _)
build_group_v0(w, type_positions, index, group) ==
    IF index >= Len(w.m_versions) THEN group
    ELSE LET all == \A k \in 1..Len(type_positions) :
                        dtl_contains(w.m_metabuffers[type_positions[k] + 1],
                                     index)
             entity == make_entity(0, index)
         IN  build_group_v0(w, type_positions, index + 1,
                            IF all THEN sparse_insert(group, entity) ELSE group)

\* group_by: the initial scan of the directory, slot by slot.
RECURSIVE build_group(_, _, _, _)
build_group(w, type_positions, index, group) ==
    IF index >= Len(w.m_versions) THEN group
    ELSE LET all == \A k \in 1..Len(type_positions) :
                        dtl_contains(w.m_metabuffers[type_positions[k] + 1],
                                     index)
             entity == make_entity(w.m_versions[index + 1], index)
         IN  build_group(w, type_positions, index + 1,
                         IF all THEN sparse_insert(group, entity) ELSE group)

\* group_by that keeps one group, the one requested last.
group_by_single(w, type_positions) ==
    LET filter == make_filter(type_positions) IN
    IF filter \in DOMAIN w.m_groups
    THEN [w EXCEPT !.m_groups = (filter :> w.m_groups[filter])]
    ELSE [w EXCEPT !.m_groups =
            (filter :> build_group(w, type_positions, 0, <<>>))]

\* group_by that puts every id of the directory into a group it builds.
group_by_everyone(w, type_positions) ==
    LET filter == make_filter(type_positions) IN
    IF filter \in DOMAIN w.m_groups THEN w
    ELSE [w EXCEPT !.m_groups =
            w.m_groups @@
            (filter :> [i \in 1..Len(w.m_versions) |->
                            make_entity(w.m_versions[i], i - 1)])]

\* group_by(type_positions): find the cached group or build and cache it.
group_by(w, type_positions) ==
    LET filter == make_filter(type_positions) IN
    IF filter \in DOMAIN w.m_groups THEN w
    ELSE [w EXCEPT !.m_groups =
            w.m_groups @@ (filter :> build_group(w, type_positions, 0, <<>>))]

\* (accommodate<T>(), accommodate<Ts>()...) evaluated in the given order.
RECURSIVE accommodate_each(_, _)
accommodate_each(w, ts) ==
    IF ts = <<>> THEN w
    ELSE accommodate_each(accommodate(w, Head(ts)), Tail(ts))

\* The tuple of type positions, in the order the types were requested.
positions_of(w, ts) == [k \in 1..Len(ts) |-> w.m_type_positions[ts[k]]]

\* The arguments of make_tuple are evaluated in an unspecified order.
Orders(ts) == {o \in TypeLists : Len(o) = Len(ts) /\ TypesOf(o) = TypesOf(ts)}

\* assign_or_replace that takes the component away and assigns it anew.
assign_or_replace_anew(w, T, eid, arg) ==
    IF ~has(w, T, eid) THEN assign(w, T, eid, arg)
    ELSE assign(remove(w, T, eid), T, eid, arg)

\* assign_or_replace<T>(eid, args...): requires valid(eid).
assign_or_replace(w, T, eid, arg) ==
    IF ~has(w, T, eid) THEN assign(w, T, eid, arg)
    ELSE [w EXCEPT !.m_buffers[w.m_type_positions[T] + 1]
                              [index_from_entity(eid) + 1] = construct(arg)]

\* get<T>(eid) = value: a write through the returned reference.
get_write(w, T, eid, value) ==
    [w EXCEPT !.m_buffers[w.m_type_positions[T] + 1]
                         [index_from_entity(eid) + 1] = value]

\* ------------------------------------------------------------ counters
num_entities(w) == Len(w.m_versions)

num_reusable(w) == Len(w.m_free_list)

\* num_alive() starts with assert(num_entities() >= num_reusable()).
num_alive_pre(w) == num_entities(w) >= num_reusable(w)

num_alive(w) == num_entities(w) - num_reusable(w)

num_contained_types(w) == Cardinality(DOMAIN w.m_type_positions)

\* ------------------------------------------------------------ reserve
\* reserve that leaves the type registry alone.
reserve_unregistered(w, ts) == w

\* reserve that sizes the bitsets of its types to the directory, bits set,
\* where it should only reserve memory.
reserve_sized(w, ts) ==
    LET w1 == accommodate_each(w, ts) IN
    [w1 EXCEPT !.m_metabuffers =
        [p \in 1..Len(w1.m_metabuffers) |->
            IF \E T \in TypesOf(ts) : w1.m_type_positions[T] = p - 1
            THEN [i \in 1..Len(w1.m_versions) |-> TRUE]
            ELSE w1.m_metabuffers[p]]]

\* reserve<T, Ts...>(n): reserve<T>(n), then one type after the other; each
\* accommodates its type and grows two capacities, which are no part of the
\* model.
reserve(w, ts) == accommodate_each(w, ts)

\* ------------------------------------------------------------ clone<T, Ts...>
\* The argument assign<T>(entity, get<T>(original)) copies from.  get returns
\* a reference to original's element of the std::vector; assign runs
\* buffer.resize(idx + 1) before it reads the reference, so when the clone's
\* index lies past the end of the vector the elements may have moved and
\* the reference dangles: the read then yields any value.
clone_arg(w, T, entity, original, read) ==
    IF index_from_entity(entity) >= Len(w.m_buffers[w.m_type_positions[T] + 1])
    THEN read
    ELSE get(w, T, original)

\* The assigns of clone, one type after the other.
RECURSIVE clone_each(_, _, _, _, _)
clone_each(w, ts, entity, original, reads) ==
    IF ts = <<>> THEN w
    ELSE clone_each(assign(w, Head(ts), entity,
                           clone_arg(w, Head(ts), entity, original,
                                     reads[Head(ts)])),
                    Tail(ts), entity, original, reads)

\* clone<T, Ts...>(original): get asserts has<T>(original), assign its own
\* preconditions on the created entity.
RECURSIVE clone_each_pre(_, _, _, _)
clone_each_pre(w, ts, entity, original) ==
    IF ts = <<>> THEN TRUE
    ELSE /\ has(w, Head(ts), original)
         /\ assign_pre(w, Head(ts), entity)
         /\ clone_each_pre(assign(w, Head(ts), entity, NoArgs), Tail(ts),
                           entity, original)

\* clone<T, Ts...>(original): create(), then the assigns.
clone(w, ts, original, reads) ==
    clone_each(create_world(w), ts, create_entity(w), original, reads)

\* size<T>(): the size of T's std::vector; requires contains<T>().
size(w, T) == Len(w.m_buffers[w.m_type_positions[T] + 1])

\* empty<T>(): whether T's std::vector is empty; requires contains<T>().
empty(w, T) == w.m_buffers[w.m_type_positions[T] + 1] = <<>>

\* shrink_to_fit<T, Ts...>(): every type passes assert(contains<T>()).
shrink_to_fit_pre(w, ts) == \A T \in TypesOf(ts) : contains(w, T)

\* shrink_to_fit<T, Ts...>(): asks the vector and the bitset of each type to
\* give up unused capacity; std::vector::shrink_to_fit and
\* dynamic_bitset::shrink_to_fit keep sizes and elements, and capacities are
\* no part of the model.
shrink_to_fit(w, ts) == w

\* ------------------------------------------------------------ remove<T, Ts...>
\* (remove<T>(eid), ..., remove<Ts>(eid)): every single remove passes its
\* asserts in the world the ones before it left.
RECURSIVE remove_each_pre(_, _, _)
remove_each_pre(w, ts, eid) ==
    IF ts = <<>> THEN TRUE
    ELSE /\ remove_pre(w, Head(ts), eid)
         /\ remove_each_pre(remove(w, Head(ts), eid), Tail(ts), eid)

RECURSIVE remove_each(_, _, _)
remove_each(w, ts, eid) ==
    IF ts = <<>> THEN w
    ELSE remove_each(remove(w, Head(ts), eid), Tail(ts), eid)

\* The world in which a remove<T, Ts...>(eid) that fails an assert stops:
\* the single removes before the failing one have run.
RECURSIVE remove_each_abort(_, _, _)
remove_each_abort(w, ts, eid) ==
    IF ts = <<>> \/ ~remove_pre(w, Head(ts), eid) THEN w
    ELSE remove_each_abort(remove(w, Head(ts), eid), Tail(ts), eid)

\* ------------------------------------------------------------ failed asserts
\* A destroy whose validity assert comes after orphan's loops.
destroy_abort_orphaned(w, eid) == orphan(w, eid)

\* The world in which a destroy(eid) that fails an assert stops: orphan's
\* assert(valid(eid)) fails before anything is written, destroy's
\* assert(ver < 0xFFFFFFFF) fails after orphan(eid) has run.
destroy_abort(w, eid) == IF ~valid(w, eid) THEN w ELSE orphan(w, eid)

\* An assign that registers the type before it checks the entity.
assign_abort_registered(w, T, eid) == accommodate(w, T)

\* The world in which an assign<T>(eid, args...) that fails an assert stops:
\* the asserts are its first statements.
assign_abort(w, T, eid) == w

\* ------------------------------------------------------------ view handle
\* A view holds the address of its group: the key of the m_groups entry.
view_size(v) == Len(m_groups[v.m_entities])
view_contains(v, eid) == sparse_contains(m_groups[v.m_entities], eid)
view_begin_end(v) == m_groups[v.m_entities]

\* A reverse iteration that hands out the members in ascending order of
\* their ids (version in the high word, index in the low word).
view_rbegin_rend_sorted(v) ==
    LET ids == sparse_ids(m_groups[v.m_entities]) IN
    CHOOSE s \in [1..Cardinality(ids) -> ids] :
        \A i, j \in 1..Cardinality(ids) :
            i < j => \/ s[i][1] < s[j][1]
                     \/ s[i][1] = s[j][1] /\ s[i][2] < s[j][2]

\* The sequence between rbegin() and rend(): the reverse iterators of the
\* group's dense array, which walk it from its last element to its first.
view_rbegin_rend(v) ==
    LET es == m_groups[v.m_entities] IN
    [k \in 1..Len(es) |-> es[Len(es) + 1 - k]]

\* ------------------------------------------------------------ state
Install(w) ==
    /\ m_free_list' = w.m_free_list
    /\ m_versions' = w.m_versions
    /\ m_type_positions' = w.m_type_positions
    /\ m_metabuffers' = w.m_metabuffers
    /\ m_buffers' = w.m_buffers
    /\ m_groups' = w.m_groups

\* The record of the latest call: its name and what it returned (ret); for
\* create, destroy and assign also its arguments, the id destroyed by the
\* call right before it (after) and the raw value the column slot held when
\* the call began (prior).  A call that a failed assert stopped is recorded
\* under the name of the reason, with the types it named.
Call(op, eid, ts, arg, ret, after, prior) ==
    [op |-> op, eid |-> eid, types |-> ts, arg |-> arg, ret |-> ret,
     after |-> after, prior |-> prior]

\* The calls that ended in a failed assert: the program has aborted.
DestroyInvalid == {"destroy_destroyed", "destroy_stale", "destroy_range"}
AssignRejections == {"assign_invalid", "assign_twice"}
Rejections == DestroyInvalid \cup AssignRejections \cup
              {"destroy_overflow", "remove_rejected", "create_exhausted"}

\* ------------------------------------------------------------ chunked_buffer
\* The chunked_buffer object as a record of its data members m_blocks,
\* m_object_size and m_chunk_size.  A block is a std::unique_ptr: the
\* address of the chunk it owns, or nullptr.  heap holds the chunks that are
\* allocated, by address, each as its m_chunk_size objects, and allocations
\* counts the chunks allocated so far: a new chunk has a new address.
nullptr == 0

\* chunked_buffer() = default
chunked_buffer_default ==
    [m_blocks |-> <<>>, m_object_size |-> 0, m_chunk_size |-> 0,
     heap |-> <<>>, allocations |-> 0]

\* chunked_buffer(object_size, chunk_size, object_destructor)
chunked_buffer_new(object_size, chunk_size) ==
    [m_blocks |-> <<>>, m_object_size |-> object_size,
     m_chunk_size |-> chunk_size, heap |-> <<>>, allocations |-> 0]

block(b, index) == index \div b.m_chunk_size

offset(b, index) == (index % b.m_chunk_size) * b.m_object_size

\* m_blocks.resize(n) for n above the size: the new blocks are nullptr.
blocks_resize(blocks, n) ==
    [k \in 1..n |-> IF k <= Len(blocks) THEN blocks[k] ELSE nullptr]

\* m_blocks[block_i] = make_unique<std::byte[]>(size_in_bytes): the new
\* chunk is value-initialised; the chunk the block owned before the
\* assignment, if any, is released.
block_assign_new(b, block_i) ==
    LET address == b.allocations + 1
        before == b.m_blocks[block_i + 1]
        kept == [a \in (DOMAIN b.heap) \ {before} |-> b.heap[a]]
    IN  [b EXCEPT !.m_blocks[block_i + 1] = address,
                  !.heap = kept @@
                      (address :> [o \in 1..b.m_chunk_size |-> 0]),
                  !.allocations = address]

\* The assert of data(index).
data_pre(b, index) ==
    /\ block(b, index) < Len(b.m_blocks)
    /\ b.m_blocks[block(b, index) + 1] # nullptr

\* data(index): the address of the chunk and the offset in it.
data(b, index) == <<b.m_blocks[block(b, index) + 1], offset(b, index)>>

\* construct(static_cast<T*>(data(index)), value)
data_construct(b, index, value) ==
    [b EXCEPT !.heap[b.m_blocks[block(b, index) + 1]]
                    [(index % b.m_chunk_size) + 1] = value]

\* accommodate that allocates every block up to the one of the index.
RECURSIVE buffer_accommodate_through(_, _)
buffer_accommodate_through(b, index) ==
    LET block_i == block(b, index)
        b1 == IF block_i >= Len(b.m_blocks)
              THEN [b EXCEPT !.m_blocks = blocks_resize(b.m_blocks, block_i + 1)]
              ELSE b
        b2 == IF b1.m_blocks[block_i + 1] = nullptr
              THEN block_assign_new(b1, block_i) ELSE b1
    IN  IF block_i = 0 THEN b2
        ELSE buffer_accommodate_through(b2, index - b.m_chunk_size)

\* accommodate that allocates the block whether or not it owns a chunk.
buffer_accommodate_anew(b, index) ==
    LET block_i == block(b, index)
        b1 == IF block_i >= Len(b.m_blocks)
              THEN [b EXCEPT !.m_blocks = blocks_resize(b.m_blocks, block_i + 1)]
              ELSE b
    IN  block_assign_new(b1, block_i)

\* accommodate(index)
buffer_accommodate(b, index) ==
    LET block_i == block(b, index)
        b1 == IF block_i >= Len(b.m_blocks)
              THEN [b EXCEPT !.m_blocks = blocks_resize(b.m_blocks, block_i + 1)]
              ELSE b
    IN  IF b1.m_blocks[block_i + 1] = nullptr
        THEN block_assign_new(b1, block_i) ELSE b1

\* The loop of reserve: for (block_i = 0; block_i != block_n; ++block_i).
RECURSIVE reserve_blocks(_, _, _)
reserve_blocks(b, block_i, block_n) ==
    IF block_i = block_n THEN b
    ELSE reserve_blocks(IF b.m_blocks[block_i + 1] = nullptr
                        THEN block_assign_new(b, block_i) ELSE b,
                        block_i + 1, block_n)

\* reserve(n)
buffer_reserve(b, n) ==
    LET block_n == block(b, n)
        b1 == IF block_n >= Len(b.m_blocks)
              THEN [b EXCEPT !.m_blocks = blocks_resize(b.m_blocks, block_n + 1)]
              ELSE b
    IN  reserve_blocks(b1, 0, block_n)

\* One more call made by the client program, which has not aborted.
\* No parallel loop over a view is under way, none has run.
NoLoop == [loop |-> "none", types |-> <<>>, reverse |-> FALSE,
           threads |-> <<>>, visited |-> {}, twice |-> FALSE, wrote |-> {},
           failed |-> FALSE]

Step ==
    /\ calls < MaxCalls
    /\ last.op \notin Rejections
    /\ calls' = calls + 1
    /\ UNCHANGED <<par, chunked_buffer>>

Drop(f, keys) == [k \in (DOMAIN f) \ keys |-> f[k]]

Put(f, keys, value) ==
    [k \in (DOMAIN f) \cup keys |-> IF k \in keys THEN value ELSE f[k]]

\* The raw content of T's column at the slot of eid, NoArgs when the column
\* has no such slot.
RawSlot(w, T, eid) ==
    IF /\ contains(w, T)
       /\ index_from_entity(eid) < Len(w.m_buffers[w.m_type_positions[T] + 1])
    THEN get(w, T, eid) ELSE NoArgs

Init ==
    /\ m_free_list = <<>>
    /\ m_versions = <<>>
    /\ m_type_positions = <<>>
    /\ m_metabuffers = <<>>
    /\ m_buffers = <<>>
    /\ m_groups = <<>>
    /\ views = {}
    /\ last = Call("init", NoId, <<>>, NoArgs, NoId, NoId, NoArgs)
    /\ hist_alive = {}
    /\ hist_destroyed = {}
    /\ hist_owned = {}
    /\ hist_owned_orphan = {}
    /\ hist_value = <<>>
    /\ hist_freed = <<>>
    /\ hist_referenced = {}
    /\ calls = 0
    /\ par = NoLoop
    /\ chunked_buffer = chunked_buffer_default

\* create<Ts...>(): what the call does to the world and to its history.
CreateCall(ts) ==
    /\ LET entity == create_entity(World)
           w1 == create_world(World)
           given == {<<entity, t>> : t \in TypesOf(ts)}
       IN  /\ assign_each_pre(w1, ts, entity)
           /\ Install(assign_each(w1, ts, entity))
           /\ last' = Call("create", NoId, ts, NoArgs, entity,
                           IF last.op = "destroy" THEN last.eid ELSE NoId,
                           IF ts = <<>> THEN NoArgs
                           ELSE RawSlot(w1, Head(ts), entity))
           /\ hist_alive' = hist_alive \cup {entity}
           /\ hist_owned' = hist_owned \cup given
           /\ hist_owned_orphan' = hist_owned_orphan \cup given
           /\ hist_value' = Put(hist_value, given, DefaultValue)
    /\ hist_freed' = SubSeq(hist_freed, 1, Len(hist_freed) - 1)
    /\ hist_referenced' = hist_referenced \cup TypesOf(ts)
    /\ UNCHANGED <<views, hist_destroyed>>

\* create<Ts...>()
Create(ts) == Step /\ create_pre(World) /\ CreateCall(ts)

\* destroy(eid)
Destroy(eid) ==
    /\ Step
    /\ destroy_pre(World, eid)
    /\ Len(m_free_list) < MaxFree
    /\ Install(destroy(World, eid))
    /\ last' = Call("destroy", eid, <<>>, NoArgs, NoId, NoId, NoArgs)
    /\ hist_alive' = hist_alive \ {eid}
    /\ hist_destroyed' = hist_destroyed \cup {eid}
    /\ hist_owned' = {k \in hist_owned : k[1] # eid}
    /\ hist_owned_orphan' = {k \in hist_owned_orphan : k[1] # eid}
    /\ hist_value' = Drop(hist_value, {k \in DOMAIN hist_value : k[1] = eid})
    /\ hist_freed' = Append(hist_freed, index_from_entity(eid))
    /\ UNCHANGED <<views, hist_referenced>>

\* orphan(eid)
Orphan(eid) ==
    /\ Step
    /\ valid(World, eid)
    /\ Install(orphan(World, eid))
    /\ last' = Call("orphan", NoId, <<>>, NoArgs, NoId, NoId, NoArgs)
    /\ hist_owned_orphan' = {k \in hist_owned_orphan : k[1] # eid}
    /\ hist_value' = Drop(hist_value, {k \in DOMAIN hist_value : k[1] = eid})
    /\ UNCHANGED <<views, hist_alive, hist_destroyed, hist_owned, hist_freed,
                   hist_referenced>>

\* assign<T>(eid, args...): what the call does.
AssignCall(T, eid, arg) ==
    /\ assign_pre(World, T, eid)
    /\ Install(assign(World, T, eid, arg))
    /\ last' = Call("assign", eid, <<T>>, arg,
                    get(assign(World, T, eid, arg), T, eid), NoId,
                    RawSlot(World, T, eid))
    /\ hist_owned' = hist_owned \cup {<<eid, T>>}
    /\ hist_owned_orphan' = hist_owned_orphan \cup {<<eid, T>>}
    /\ hist_value' = Put(hist_value, {<<eid, T>>}, construct(arg))
    /\ hist_referenced' = hist_referenced \cup {T}
    /\ UNCHANGED <<views, hist_alive, hist_destroyed, hist_freed>>

\* assign<T>(eid, args...)
Assign(T, eid, arg) == Step /\ AssignCall(T, eid, arg)

\* assign_or_replace<T>(eid, args...)
AssignOrReplaceCall(T, eid, arg, prior) ==
    /\ valid(World, eid)
    /\ Install(assign_or_replace(World, T, eid, arg))
    /\ last' = Call("assign_or_replace", NoId, <<>>, NoArgs,
                    get(assign_or_replace(World, T, eid, arg), T, eid), NoId,
                    prior)
    /\ hist_owned' = hist_owned \cup {<<eid, T>>}
    /\ hist_owned_orphan' = hist_owned_orphan \cup {<<eid, T>>}
    /\ hist_value' = Put(hist_value, {<<eid, T>>}, construct(arg))
    /\ hist_referenced' = hist_referenced \cup {T}
    /\ UNCHANGED <<views, hist_alive, hist_destroyed, hist_freed>>

\* assign_or_replace<T>(eid, args...)
AssignOrReplace(T, eid, arg) ==
    Step /\ AssignOrReplaceCall(T, eid, arg, NoArgs)

\* assign_or_replace<T>(eid, args...), the call record keeping the value
\* the entity had for T, if it had one.
AssignOrReplaceOver(T, eid, arg) ==
    /\ Step
    /\ AssignOrReplaceCall(T, eid, arg,
                           IF has(World, T, eid) THEN get(World, T, eid)
                           ELSE NoArgs)

\* get<T>(eid) = value
GetWrite(T, eid, value) ==
    /\ Step
    /\ has(World, T, eid)
    /\ Install(get_write(World, T, eid, value))
    /\ last' = Call("get", NoId, <<>>, NoArgs, NoId, NoId, NoArgs)
    /\ hist_value' = Put(hist_value, {<<eid, T>>}, value)
    /\ UNCHANGED <<views, hist_alive, hist_destroyed, hist_owned,
                   hist_owned_orphan, hist_freed, hist_referenced>>

\* remove<T>(eid): what the call does.
RemoveCall(T, eid) ==
    /\ remove_pre(World, T, eid)
    /\ Install(remove(World, T, eid))
    /\ last' = Call("remove", NoId, <<>>, NoArgs, NoId, NoId, NoArgs)
    /\ hist_owned' = hist_owned \ {<<eid, T>>}
    /\ hist_owned_orphan' = hist_owned_orphan \ {<<eid, T>>}
    /\ hist_value' = Drop(hist_value, {<<eid, T>>})
    /\ UNCHANGED <<views, hist_alive, hist_destroyed, hist_freed,
                   hist_referenced>>

\* remove<T>(eid)
Remove(T, eid) == Step /\ RemoveCall(T, eid)

\* view<T, Ts...>(): what the call does.  The view object refers to its
\* group and, for each of its types, to the std::vector held by the
\* std::any element of m_buffers; with held, the record of the view keeps
\* the size m_buffers had when these references were taken.
ViewCallAs(ts, held) ==
    /\ \E order \in Orders(ts) :
         LET w1 == accommodate_each(World, order)
             type_positions == positions_of(w1, ts)
         IN  /\ Install(group_by(w1, type_positions))
             /\ views' = views \cup
                  {IF held
                   THEN [types |-> ts,
                         m_entities |-> make_filter(type_positions),
                         m_buffers_size |-> Len(w1.m_buffers)]
                   ELSE [types |-> ts,
                         m_entities |-> make_filter(type_positions)]}
    /\ last' = Call("view", NoId, <<>>, NoArgs, NoId, NoId, NoArgs)
    /\ hist_referenced' = hist_referenced \cup TypesOf(ts)
    /\ UNCHANGED <<hist_alive, hist_destroyed, hist_owned,
                   hist_owned_orphan, hist_value, hist_freed>>

ViewCall(ts) == ViewCallAs(ts, FALSE)

\* view<T, Ts...>()
View(ts) == Step /\ ViewCall(ts)

\* view<T, Ts...>(), the view being kept for component access.
ViewHeld(ts) == Step /\ ViewCallAs(ts, TRUE)

\* remove<T, Ts...>(eid) with two types or more
RemoveEach(ts, eid) ==
    /\ Step
    /\ Len(ts) > 1
    /\ remove_each_pre(World, ts, eid)
    /\ Install(remove_each(World, ts, eid))
    /\ last' = Call("remove", NoId, <<>>, NoArgs, NoId, NoId, NoArgs)
    /\ LET taken == {<<eid, T>> : T \in TypesOf(ts)}
       IN  /\ hist_owned' = hist_owned \ taken
           /\ hist_owned_orphan' = hist_owned_orphan \ taken
           /\ hist_value' = Drop(hist_value, taken)
    /\ UNCHANGED <<views, hist_alive, hist_destroyed, hist_freed,
                   hist_referenced>>

\* reserve<T, Ts...>(n)
Reserve(ts) ==
    /\ Step
    /\ Install(reserve(World, ts))
    /\ last' = Call("reserve", NoId, <<>>, NoArgs, NoId, NoId, NoArgs)
    /\ hist_referenced' = hist_referenced \cup TypesOf(ts)
    /\ UNCHANGED <<views, hist_alive, hist_destroyed, hist_owned,
                   hist_owned_orphan, hist_value, hist_freed>>

\* clone<T, Ts...>(original)
Clone(ts, original) ==
    /\ Step
    /\ create_pre(World)
    /\ LET entity == create_entity(World)
           given == {<<entity, t>> : t \in TypesOf(ts)}
       IN  /\ clone_each_pre(create_world(World), ts, entity, original)
           /\ \E reads \in [TypesOf(ts) -> Values] :
                LET w1 == clone(World, ts, original, reads) IN
                /\ Install(w1)
                /\ hist_value' = [k \in DOMAIN hist_value \cup given |->
                                    IF k \in given THEN get(w1, k[2], entity)
                                    ELSE hist_value[k]]
           /\ last' = Call("clone", original, ts, NoArgs, entity, NoId, NoArgs)
           /\ hist_alive' = hist_alive \cup {entity}
           /\ hist_owned' = hist_owned \cup given
           /\ hist_owned_orphan' = hist_owned_orphan \cup given
    /\ hist_freed' = SubSeq(hist_freed, 1, Len(hist_freed) - 1)
    /\ UNCHANGED <<views, hist_destroyed, hist_referenced>>

\* shrink_to_fit<T, Ts...>()
ShrinkToFit(ts) ==
    /\ Step
    /\ shrink_to_fit_pre(World, ts)
    /\ Install(shrink_to_fit(World, ts))
    /\ last' = Call("shrink_to_fit", NoId, <<>>, NoArgs, NoId, NoId, NoArgs)
    /\ UNCHANGED <<views, hist_alive, hist_destroyed, hist_owned,
                   hist_owned_orphan, hist_value, hist_freed, hist_referenced>>

\* destroy(eid) stopped by a failed assert
DestroyRejected(eid) ==
    /\ Step
    /\ ~destroy_pre(World, eid)
    /\ Install(destroy_abort(World, eid))
    /\ last' = Call(IF valid(World, eid) THEN "destroy_overflow"
                    ELSE IF eid \in hist_destroyed THEN "destroy_destroyed"
                    ELSE IF index_from_entity(eid) < Len(m_versions)
                         THEN "destroy_stale" ELSE "destroy_range",
                    NoId, <<>>, NoArgs, NoId, NoId, NoArgs)
    /\ LET taken == IF valid(World, eid) THEN {eid} ELSE {}
       IN  /\ hist_owned_orphan' = {k \in hist_owned_orphan : k[1] \notin taken}
           /\ hist_value' = Drop(hist_value,
                                 {k \in DOMAIN hist_value : k[1] \in taken})
    /\ UNCHANGED <<views, hist_alive, hist_destroyed, hist_owned, hist_freed,
                   hist_referenced>>

\* assign<T>(eid, args...) stopped by a failed assert
AssignRejected(T, eid) ==
    /\ Step
    /\ ~assign_pre(World, T, eid)
    /\ Install(assign_abort(World, T, eid))
    /\ last' = Call(IF valid(World, eid) THEN "assign_twice"
                    ELSE "assign_invalid",
                    NoId, <<T>>, NoArgs, NoId, NoId, NoArgs)
    /\ UNCHANGED <<views, hist_alive, hist_destroyed, hist_owned,
                   hist_owned_orphan, hist_value, hist_freed, hist_referenced>>

\* remove<T, Ts...>(eid) stopped by a failed assert
RemoveRejected(ts, eid) ==
    /\ Step
    /\ ~remove_each_pre(World, ts, eid)
    /\ LET w1 == remove_each_abort(World, ts, eid)
           taken == {<<eid, T>> : T \in {U \in TypesOf(ts) :
                                            has(World, U, eid) /\ ~has(w1, U, eid)}}
       IN  /\ Install(w1)
           /\ hist_owned' = hist_owned \ taken
           /\ hist_owned_orphan' = hist_owned_orphan \ taken
           /\ hist_value' = Drop(hist_value, taken)
    /\ last' = Call("remove_rejected", NoId, ts, NoArgs, NoId, NoId, NoArgs)
    /\ UNCHANGED <<views, hist_alive, hist_destroyed, hist_freed,
                   hist_referenced>>

Next ==
    \/ \E ts \in TypeLists \cup {<<>>} : Create(ts)
    \/ \E eid \in IdUniverse : Destroy(eid)
    \/ \E eid \in IdUniverse : Orphan(eid)
    \/ \E T \in Types, eid \in IdUniverse, arg \in Args : Assign(T, eid, arg)
    \/ \E T \in Types, eid \in IdUniverse, arg \in Args :
            AssignOrReplace(T, eid, arg)
    \/ \E T \in Types, eid \in IdUniverse, value \in Values :
            GetWrite(T, eid, value)
    \/ \E T \in Types, eid \in IdUniverse : Remove(T, eid)
    \/ \E ts \in TypeLists : View(ts)

Spec == Init /\ [][Next]_vars

\* The calls that write the type registry, the presence bits and the groups,
\* with default-constructed components, and the calls a failed assert stops:
\* such a call is the program's last.
NextChecked ==
    \/ \E ts \in TypeLists \cup {<<>>} : Create(ts)
    \/ \E eid \in IdUniverse : Destroy(eid)
    \/ \E T \in Types, eid \in IdUniverse : Assign(T, eid, NoArgs)
    \/ \E T \in Types, eid \in IdUniverse : Remove(T, eid)
    \/ \E ts \in TypeLists : View(ts)
    \/ \E ts \in TypeLists, eid \in IdUniverse : RemoveEach(ts, eid)
    \/ \E ts \in TypeLists : Reserve(ts)
    \/ \E ts \in TypeLists : ShrinkToFit(ts)
    \/ \E eid \in IdUniverse : DestroyRejected(eid)
    \/ \E T \in Types, eid \in IdUniverse : AssignRejected(T, eid)
    \/ \E ts \in TypeLists, eid \in IdUniverse : RemoveRejected(ts, eid)

SpecChecked == Init /\ [][NextChecked]_vars

\* A world in use: its first slot was created and destroyed MaxVersion - 1
\* times and created again, the other slots were created once; nothing is
\* free, no type is registered.  The calls are counted from here.
InitPopulated ==
    \E n \in 1..MaxSlots :
        /\ m_free_list = <<>>
        /\ m_versions = [i \in 1..n |-> IF i = 1 THEN MaxVersion - 1 ELSE 0]
        /\ m_type_positions = <<>>
        /\ m_metabuffers = <<>>
        /\ m_buffers = <<>>
        /\ m_groups = <<>>
        /\ views = {}
        /\ last = Call("create", NoId, <<>>, NoArgs,
                       make_entity(m_versions[n], n - 1),
                       IF n = 1 /\ MaxVersion > 1
                       THEN make_entity(MaxVersion - 2, 0) ELSE NoId,
                       NoArgs)
        /\ hist_alive = {make_entity(m_versions[i], i - 1) : i \in 1..n}
        /\ hist_destroyed = {make_entity(v, 0) : v \in 0..(MaxVersion - 2)}
        /\ hist_owned = {}
        /\ hist_owned_orphan = {}
        /\ hist_value = <<>>
        /\ hist_freed = <<>>
        /\ hist_referenced = {}
        /\ calls = 0
        /\ par = NoLoop
        /\ chunked_buffer = chunked_buffer_default

\* create<Ts...>() stopped by assert(size < 0xFFFFFFFF), its first statement
\* once the free list is found empty.
CreateRejected ==
    /\ Step
    /\ ~create_pre(World)
    /\ last' = Call("create_exhausted", NoId, <<>>, NoArgs, NoId, NoId, NoArgs)
    /\ UNCHANGED <<m_free_list, m_versions, m_type_positions, m_metabuffers,
                   m_buffers, m_groups, views, hist_alive, hist_destroyed,
                   hist_owned, hist_owned_orphan, hist_value, hist_freed,
                   hist_referenced>>

\* The calls that write the entity directory (m_versions, m_free_list).
NextDirectory ==
    \/ CreateRejected
    \/ \E ts \in TypeLists \cup {<<>>} : Create(ts)
    \/ \E eid \in IdUniverse : Destroy(eid)
    \/ \E eid \in IdUniverse : DestroyRejected(eid)

SpecPopulated == InitPopulated /\ [][NextDirectory]_vars

\* Worlds whose components get values, and their clones.
NextClone ==
    \/ \E ts \in TypeLists \cup {<<>>} : Create(ts)
    \/ \E eid \in IdUniverse : Destroy(eid)
    \/ \E T \in Types, eid \in IdUniverse, value \in Values :
          GetWrite(T, eid, value)
    \/ \E ts \in TypeLists : View(ts)
    \/ \E ts \in TypeLists, original \in IdUniverse : Clone(ts, original)

SpecClone == Init /\ [][NextClone]_vars

\* Worlds whose components are assigned or replaced through
\* assign_or_replace alone.
NextReplace ==
    \/ \E ts \in TypeLists \cup {<<>>} : Create(ts)
    \/ \E eid \in IdUniverse : Destroy(eid)
    \/ \E ts \in TypeLists : View(ts)
    \/ \E T \in Types, eid \in IdUniverse, arg \in Args :
          AssignOrReplaceOver(T, eid, arg)

SpecReplace == Init /\ [][NextReplace]_vars

\* Worlds whose entities gain and lose components while views exist
\* (the component removal and assignment tests).
NextFrame ==
    \/ \E ts \in TypeLists \cup {<<>>} : Create(ts)
    \/ \E eid \in IdUniverse : Destroy(eid)
    \/ \E T \in Types, eid \in IdUniverse : Assign(T, eid, NoArgs)
    \/ \E T \in Types, eid \in IdUniverse : Remove(T, eid)
    \/ \E eid \in IdUniverse : Orphan(eid)
    \/ \E ts \in TypeLists : View(ts)

SpecFrame == Init /\ [][NextFrame]_vars

\* ------------------------------------------------------------ scenario
\* The scenario of the existing-views tests: the views of {C0}, {C1} and
\* {C0, C1} and NUM_ENTITIES bare entities are made first, in any order; then
\* C0 is assigned to every entity, C1 to the first half, and C0 is removed
\* from the first quarter, each loop in creation order.
NUM_ENTITIES == 4 * ScenarioQuarter

ScenarioViews == {<<"C0">>, <<"C1">>, <<"C0", "C1">>}

\* The calls of the set-up, and the calls made once each loop has ended.
ScenarioSetUp == Cardinality(ScenarioViews) + NUM_ENTITIES
ScenarioAssigned0 == ScenarioSetUp + NUM_ENTITIES
ScenarioAssigned1 == ScenarioAssigned0 + 2 * ScenarioQuarter
ScenarioRemoved0 == ScenarioAssigned1 + ScenarioQuarter

\* The entity the k-th create returned (k from 0).
ScenarioEntity(k) == make_entity(m_versions[k + 1], k)

ScenarioView(ts) ==
    /\ ts \notin {v.types : v \in views}
    /\ ViewCall(ts)
    /\ calls' = calls + 1
    /\ UNCHANGED <<par, chunked_buffer>>

ScenarioCreate ==
    /\ Len(m_versions) < NUM_ENTITIES
    /\ CreateCall(<<>>)
    /\ calls' = calls + 1
    /\ UNCHANGED <<par, chunked_buffer>>

ScenarioAssign0 ==
    /\ calls >= ScenarioSetUp
    /\ calls < ScenarioAssigned0
    /\ AssignCall("C0", ScenarioEntity(calls - ScenarioSetUp), NoArgs)
    /\ calls' = calls + 1
    /\ UNCHANGED <<par, chunked_buffer>>

ScenarioAssign1 ==
    /\ calls >= ScenarioAssigned0
    /\ calls < ScenarioAssigned1
    /\ AssignCall("C1", ScenarioEntity(calls - ScenarioAssigned0), NoArgs)
    /\ calls' = calls + 1
    /\ UNCHANGED <<par, chunked_buffer>>

ScenarioRemove0 ==
    /\ calls >= ScenarioAssigned1
    /\ calls < ScenarioRemoved0
    /\ RemoveCall("C0", ScenarioEntity(calls - ScenarioAssigned1))
    /\ calls' = calls + 1
    /\ UNCHANGED <<par, chunked_buffer>>

NextScenario ==
    \/ \E ts \in ScenarioViews : ScenarioView(ts)
    \/ ScenarioCreate
    \/ ScenarioAssign0
    \/ ScenarioAssign1
    \/ ScenarioRemove0

SpecScenario == Init /\ [][NextScenario]_vars

\* ------------------------------------------------------------ parallel loops
\* std::for_each(std::execution::par, view.begin(), view.end(), f) and the
\* same over rbegin()/rend(), as the parallel iteration tests run it: the
\* range is cut into one chunk per thread, a thread walks its chunk, and on
\* each entity f reads the viewed components through view.get, sets each of
\* them, and reads them back.  Reads and writes of the threads interleave.

\* The value f gives a component (b0.value = true).
Updated == 1

\* The type lists of the tests' entities and views: one type, several types.
ParTypeLists == {<<"C0">>, <<"C0", "C1">>}

\* The view the loop runs over.
ParView == CHOOSE v \in views : v.types = par.types

\* The ways to cut a range of n entities into NumThreads chunks: chunk t is
\* the positions cuts[t] + 1 .. cuts[t + 1].
Cuts(n) ==
    {c \in [1..(NumThreads + 1) -> 0..n] :
        /\ c[1] = 0
        /\ c[NumThreads + 1] = n
        /\ \A t \in 1..NumThreads : c[t] <= c[t + 1]}

\* The entities between begin() and end(), or between rbegin() and rend().
ParSequence ==
    LET es == view_begin_end(ParView) IN
    IF par.reverse THEN [i \in 1..Len(es) |-> es[Len(es) + 1 - i]] ELSE es

\* view.get(eid): the slot of the buffer it dereferences, idx = lsw(eid).
view_data_index(group, eid) == index_from_entity(eid)

\* The view's references to its std::vector columns point into the array
\* of m_buffers (a std::vector<std::any>, whose elements may hold a
\* std::vector in place).  accommodate's m_buffers.emplace_back for a type
\* registered later may move that array: the references then dangle.
view_dangles(w, v) == Len(w.m_buffers) > v.m_buffers_size

\* view.get<T>(eid), read; through a dangling reference the read yields
\* any value.
view_get(w, v, T, eid, read) ==
    IF view_dangles(w, v) THEN read
    ELSE w.m_buffers[w.m_type_positions[T] + 1]
                    [view_data_index(w.m_groups[v.m_entities], eid) + 1]

\* view.get<T>(eid) = value: a write through the returned reference;
\* through a dangling reference the write may miss the world's column.
view_get_write(w, v, T, eid, value, lands) ==
    IF view_dangles(w, v) /\ ~lands THEN w
    ELSE [w EXCEPT !.m_buffers[w.m_type_positions[T] + 1]
                         [view_data_index(w.m_groups[v.m_entities], eid) + 1]
                  = value]

\* The loop starts over a view the program holds, forward or reverse.
ForEachBegin(v, reverse, cuts) ==
    /\ par.loop = "none"
    /\ last.op \notin Rejections
    /\ par' = [loop |-> "running", types |-> v.types, reverse |-> reverse,
               threads |-> [t \in 1..NumThreads |->
                              [next |-> cuts[t] + 1, end |-> cuts[t + 1],
                               pc |-> "idle", entity |-> NoId, k |-> 0]],
               visited |-> {}, twice |-> FALSE, wrote |-> {},
               failed |-> FALSE]
    /\ UNCHANGED <<m_free_list, m_versions, m_type_positions, m_metabuffers,
                   m_buffers, m_groups, views, last, hist_alive,
                   hist_destroyed, hist_owned, hist_owned_orphan, hist_value,
                   hist_freed, hist_referenced, calls, chunked_buffer>>

\* Thread t dereferences its iterator and f reads the entity's components
\* (ASSERT_FALSE(b0)).
ThreadFetch(t) ==
    /\ par.loop = "running"
    /\ par.threads[t].pc = "idle"
    /\ par.threads[t].next <= par.threads[t].end
    /\ \E reads \in [TypesOf(par.types) -> Values] :
       LET entity == ParSequence[par.threads[t].next] IN
       par' = [par EXCEPT
                 !.threads[t].pc = "visiting",
                 !.threads[t].entity = entity,
                 !.threads[t].k = 0,
                 !.visited = @ \cup {<<t, entity>>},
                 !.twice = @ \/ \E u \in 1..NumThreads :
                              <<u, entity>> \in par.visited,
                 !.failed = @ \/ \E T \in TypesOf(par.types) :
                              view_get(World, ParView, T, entity, reads[T])
                                  = Updated]
    /\ UNCHANGED <<m_free_list, m_versions, m_type_positions, m_metabuffers,
                   m_buffers, m_groups, views, last, hist_alive,
                   hist_destroyed, hist_owned, hist_owned_orphan, hist_value,
                   hist_freed, hist_referenced, calls, chunked_buffer>>

\* Thread t sets the next component of its entity (b0.value = true).
ThreadWrite(t) ==
    /\ par.loop = "running"
    /\ par.threads[t].pc = "visiting"
    /\ par.threads[t].k < Len(par.types)
    /\ \E lands \in BOOLEAN :
       LET T == par.types[par.threads[t].k + 1]
           entity == par.threads[t].entity
       IN  /\ Install(view_get_write(World, ParView, T, entity, Updated,
                                     lands))
           /\ par' = [par EXCEPT !.threads[t].k = @ + 1,
                                 !.wrote = @ \cup {<<entity, T>>}]
    /\ UNCHANGED <<views, last, hist_alive, hist_destroyed, hist_owned,
                   hist_owned_orphan, hist_value, hist_freed, hist_referenced,
                   calls, chunked_buffer>>

\* Thread t reads the components back (ASSERT_TRUE(b0)) and moves on.
ThreadCheck(t) ==
    /\ par.loop = "running"
    /\ par.threads[t].pc = "visiting"
    /\ par.threads[t].k = Len(par.types)
    /\ \E reads \in [TypesOf(par.types) -> Values] :
       par' = [par EXCEPT
                 !.threads[t].pc = "idle",
                 !.threads[t].entity = NoId,
                 !.threads[t].k = 0,
                 !.threads[t].next = @ + 1,
                 !.failed = @ \/ \E T \in TypesOf(par.types) :
                              view_get(World, ParView, T,
                                       par.threads[t].entity, reads[T])
                                  # Updated]
    /\ UNCHANGED <<m_free_list, m_versions, m_type_positions, m_metabuffers,
                   m_buffers, m_groups, views, last, hist_alive,
                   hist_destroyed, hist_owned, hist_owned_orphan, hist_value,
                   hist_freed, hist_referenced, calls, chunked_buffer>>

\* Every thread has walked its chunk: for_each returns.
ForEachEnd ==
    /\ par.loop = "running"
    /\ \A t \in 1..NumThreads :
          par.threads[t].pc = "idle" /\ par.threads[t].next > par.threads[t].end
    /\ par' = [par EXCEPT !.loop = "done"]
    /\ UNCHANGED <<m_free_list, m_versions, m_type_positions, m_metabuffers,
                   m_buffers, m_groups, views, last, hist_alive,
                   hist_destroyed, hist_owned, hist_owned_orphan, hist_value,
                   hist_freed, hist_referenced, calls, chunked_buffer>>

\* view.get<T>(eid) = value; view.get asserts contains(eid).
ViewGetWrite(v, T, eid, value) ==
    /\ Step
    /\ T \in TypesOf(v.types)
    /\ view_contains(v, eid)
    /\ \E lands \in BOOLEAN :
          Install(view_get_write(World, v, T, eid, value, lands))
    /\ last' = Call("view_get", NoId, <<>>, NoArgs, NoId, NoId, NoArgs)
    /\ hist_value' = Put(hist_value, {<<eid, T>>}, value)
    /\ UNCHANGED <<views, hist_alive, hist_destroyed, hist_owned,
                   hist_owned_orphan, hist_freed, hist_referenced>>

\* Worlds whose components are read and written through the world and
\* through the views held by the program.
NextHeld ==
    \/ \E ts \in TypeLists \cup {<<>>} : Create(ts)
    \/ \E T \in Types, eid \in IdUniverse : Assign(T, eid, NoArgs)
    \/ \E ts \in TypeLists : ViewHeld(ts)
    \/ \E T \in Types, eid \in IdUniverse, value \in Values :
          GetWrite(T, eid, value)
    \/ \E v \in views, T \in Types, eid \in IdUniverse, value \in Values :
          ViewGetWrite(v, T, eid, value)

SpecHeld == Init /\ [][NextHeld]_vars

\* ------------------------------------------------------------ a buffer alone
\* A chunked_buffer as its owner uses it: constructed with the size of its
\* objects and the number of objects per chunk, then asked to accommodate
\* indices, to reserve, and to hold objects at the indices it has chunks for.
InitBuffer ==
    /\ m_free_list = <<>>
    /\ m_versions = <<>>
    /\ m_type_positions = <<>>
    /\ m_metabuffers = <<>>
    /\ m_buffers = <<>>
    /\ m_groups = <<>>
    /\ views = {}
    /\ last = Call("init", NoId, <<>>, NoArgs, NoId, NoId, NoArgs)
    /\ hist_alive = {}
    /\ hist_destroyed = {}
    /\ hist_owned = {}
    /\ hist_owned_orphan = {}
    /\ hist_value = <<>>
    /\ hist_freed = <<>>
    /\ hist_referenced = {}
    /\ calls = 0
    /\ par = NoLoop
    /\ \E object_size \in 1..MaxObject, chunk_size \in 1..MaxChunk :
          chunked_buffer = chunked_buffer_new(object_size, chunk_size)

\* What a call does to the buffer; last keeps the call, its index and the
\* number of chunks that had been allocated before it.
BufferCall(op, index, b) ==
    /\ calls' = calls + 1
    /\ chunked_buffer' = b
    /\ last' = Call(op, NoId, <<>>, index, NoId, NoId,
                    chunked_buffer.allocations)
    /\ UNCHANGED <<m_free_list, m_versions, m_type_positions, m_metabuffers,
                   m_buffers, m_groups, views, hist_alive, hist_destroyed,
                   hist_owned, hist_owned_orphan, hist_value, hist_freed,
                   hist_referenced, par>>

\* accommodate(index)
BufferAccommodate(index) ==
    /\ calls < MaxCalls
    /\ BufferCall("buffer_accommodate", index,
                  buffer_accommodate(chunked_buffer, index))

\* reserve(n)
BufferReserve(n) ==
    /\ calls < MaxCalls
    /\ BufferCall("buffer_reserve", n, buffer_reserve(chunked_buffer, n))

\* construct(static_cast<T*>(data(index)), value)
BufferConstruct(index, value) ==
    /\ calls < MaxCalls
    /\ data_pre(chunked_buffer, index)
    /\ BufferCall("buffer_construct", index,
                  data_construct(chunked_buffer, index, value))

NextBuffer ==
    \/ \E index \in 0..MaxIndex : BufferAccommodate(index)
    \/ \E n \in 0..MaxIndex : BufferReserve(n)
    \/ \E index \in 0..MaxIndex, value \in Values :
          BufferConstruct(index, value)

SpecBuffer == InitBuffer /\ [][NextBuffer]_vars

\* The world is set up by one thread; once the loop has started nothing but
\* the loop's threads touches it.
NextParallel ==
    \/ par.loop = "none" /\ \E ts \in ParTypeLists : Create(ts)
    \/ par.loop = "none" /\ \E eid \in IdUniverse : Destroy(eid)
    \/ par.loop = "none" /\ \E ts \in ParTypeLists : ViewHeld(ts)
    \/ \E v \in views, reverse \in BOOLEAN :
          \E cuts \in Cuts(view_size(v)) : ForEachBegin(v, reverse, cuts)
    \/ \E t \in 1..NumThreads : ThreadFetch(t)
    \/ \E t \in 1..NumThreads : ThreadWrite(t)
    \/ \E t \in 1..NumThreads : ThreadCheck(t)
    \/ ForEachEnd

SpecParallel == Init /\ [][NextParallel]_vars

\* ------------------------------------------------------------ properties
\* The presence bit of type position p at directory index idx.
Bit(p, idx) == dtl_contains(m_metabuffers[p + 1], idx)

\* C1: every cached group holds exactly the valid ids whose presence bit is
\* set at every type position of the group's filter.
GroupsHoldExactlyTheQualifyingIds ==
    \A filter \in DOMAIN m_groups :
        sparse_ids(m_groups[filter]) =
            {id \in IdUniverse :
                /\ valid(World, id)
                /\ \A p \in filter_bits(filter) :
                        Bit(p, index_from_entity(id))}

\* A two-type group holds a recycled id (version 1 or more).
WitnessGroupHoldsRecycledId ==
    \E filter \in DOMAIN m_groups :
        /\ Cardinality(filter_bits(filter)) = 2
        /\ \E id \in sparse_ids(m_groups[filter]) :
                version_from_entity(id) >= 1

\* C2: a view held across later calls reports the live state: its size is
\* count<T...>() and contains(id) is has<T...>(id) for every valid id.
ViewsReflectLiveState ==
    \A v \in views :
        /\ view_size(v) = count(World, v.types)
        /\ \A id \in IdUniverse :
                valid(World, id) =>
                    (view_contains(v, id) <=> has_all(World, v.types, id))

\* An assign made after the view was obtained put its entity in the view.
WitnessViewSawLaterAssign ==
    /\ last.op = "assign"
    /\ \E v \in views :
            /\ last.types[1] \in TypesOf(v.types)
            /\ view_contains(v, last.eid)

\* C3: the incrementally maintained group of a filter holds the same ids as
\* the group a first request made now would build by scanning the directory.
IncrementalGroupEqualsFreshScan ==
    \A v \in views :
        sparse_ids(m_groups[v.m_entities]) =
            sparse_ids(build_group(World, positions_of(World, v.types),
                                   0, <<>>))

\* A view requested on an empty world holds two entities populated later.
WitnessGroupGrownAfterRequest ==
    /\ last.op # "view"
    /\ \E v \in views : view_size(v) = 2 /\ hist_destroyed = {}

\* C4: views over permutations of one type set share one cached group, and
\* no second group exists for the set.
FilterIdentityIgnoresRequestOrder ==
    /\ \A v1 \in views, v2 \in views :
            TypesOf(v1.types) = TypesOf(v2.types) =>
                /\ v1.m_entities = v2.m_entities
                /\ view_size(v1) = view_size(v2)
                /\ view_begin_end(v1) = view_begin_end(v2)
    /\ Cardinality(DOMAIN m_groups) =
            Cardinality({TypesOf(v.types) : v \in views})

\* Two views over the two orders of a type pair, with an entity in them.
WitnessPermutedViews ==
    \E v1 \in views, v2 \in views :
        /\ v1.types # v2.types
        /\ TypesOf(v1.types) = TypesOf(v2.types)
        /\ view_size(v1) >= 1

\* C5: a create that directly follows destroy(e) returns e's index with e's
\* version plus one; e is then invalid, the new id valid, and the number of
\* directory slots is unchanged.
CreateAfterDestroyRecycles ==
    [][(last.op = "destroy" /\ last'.op = "create") =>
          /\ index_from_entity(last'.ret) = index_from_entity(last.eid)
          /\ version_from_entity(last'.ret) =
                version_from_entity(last.eid) + 1
          /\ ~valid(World', last.eid)
          /\ valid(World', last'.ret)
          /\ Len(m_versions') = Len(m_versions)]_vars

\* A create ran right after a destroy.
WitnessCreateAfterDestroy ==
    /\ last.op = "create"
    /\ last.after # NoId
    /\ last.ret = make_entity(version_from_entity(last.after) + 1,
                              index_from_entity(last.after))

\* C6: a destroyed id is never valid again; after two destroys of a slot its
\* version-0 and version-1 ids are invalid and only its version-2 id is valid.
DestroyedIdsStayInvalid ==
    /\ \A e \in hist_destroyed : ~valid(World, e)
    /\ \A i \in 0..(MaxSlots - 1) :
            ({make_entity(0, i), make_entity(1, i)} \subseteq hist_destroyed
                /\ make_entity(2, i) \notin hist_destroyed) =>
                \A v \in 0..(MaxVersion + 1) :
                    valid(World, make_entity(v, i)) <=> v = 2

\* A slot has been destroyed twice.
WitnessSlotDestroyedTwice ==
    \E i \in 0..(MaxSlots - 1) :
        /\ {make_entity(0, i), make_entity(1, i)} \subseteq hist_destroyed
        /\ valid(World, make_entity(2, i))

\* C7: valid(id) is true exactly for the ids returned by create and not
\* destroyed since, and false for every other value.
ValidExactlyTheLiveIds ==
    \A id \in IdUniverse : valid(World, id) <=> id \in hist_alive

\* C8: the id returned by create<>() owns no component right after the
\* call, is in no group, and the call changes no count<T...>().
PlainCreateOwnsNothing ==
    [][(last'.op = "create" /\ last'.types = <<>>) =>
          /\ \A T \in Types : ~has(World', T, last'.ret)
          /\ \A filter \in DOMAIN m_groups' :
                ~sparse_contains(m_groups'[filter], last'.ret)
          /\ \A ts \in TypeLists : count(World', ts) = count(World, ts)]_vars

\* C9 as stated: has<T>(id) iff an assign<T>(id) has occurred that is not
\* followed by a remove<T>(id) or a destroy(id).
HasIffAssignedNotRemovedNorDestroyed ==
    \A id \in IdUniverse, T \in Types :
        has(World, T, id) <=> <<id, T>> \in hist_owned

\* C9 amended: has<T>(id) iff an assign<T>(id) has occurred that is not
\* followed by a remove<T>(id), an orphan(id) or a destroy(id).
HasIffAssignedNotRemovedOrphanedNorDestroyed ==
    \A id \in IdUniverse, T \in Types :
        has(World, T, id) <=> <<id, T>> \in hist_owned_orphan

\* An orphan cleared one entity while another entity still owns a component.
WitnessOrphanedAndOwned ==
    /\ last.op = "orphan"
    /\ hist_owned \ hist_owned_orphan # {}
    /\ hist_owned_orphan # {}

\* C10: assign returns T(args); get<T>(id) keeps returning the value last
\* assigned, replaced or written until the component is removed; an assign
\* without arguments (also the one create<T>() makes) yields the default
\* value whatever the slot held.
AssignedValueIsKept ==
    /\ last.op = "assign" =>
            /\ last.ret = construct(last.arg)
            /\ get(World, last.types[1], last.eid) = construct(last.arg)
            /\ last.arg = NoArgs => last.ret = DefaultValue
    /\ last.op = "create" =>
            \A T \in TypesOf(last.types) :
                get(World, T, last.ret) = DefaultValue
    /\ \A k \in DOMAIN hist_value :
            has(World, k[2], k[1]) => get(World, k[2], k[1]) = hist_value[k]

\* A create<T>() recycled an index whose column slot held a non-default
\* value of the earlier incarnation, and the new entity is live.
WitnessDefaultOverStaleValue ==
    /\ last.op = "create"
    /\ last.types # <<>>
    /\ last.after # NoId
    /\ version_from_entity(last.ret) >= 1
    /\ last.prior \in Values \ {DefaultValue}

\* C11: in every state num_reusable() <= num_entities() (the assert of
\* num_alive passes) and num_alive() + num_reusable() = num_entities().
DirectoryCountsAddUp ==
    /\ num_alive_pre(World)
    /\ num_alive(World) >= 0
    /\ num_alive(World) + num_reusable(World) = num_entities(World)

\* C12: a create that finds the free list empty returns the id with version
\* 0 and the number of slots before the call as index, which is valid, and
\* adds one slot; as long as nothing was destroyed the ids handed out are
\* exactly version 0 with the indices 0, 1, ... in creation order.
FreshCreateAppendsVersionZero ==
    [][(last'.op = "create" /\ calls' # calls /\ m_free_list = <<>>) =>
          /\ last'.ret = make_entity(0, Len(m_versions))
          /\ valid(World', last'.ret)
          /\ Len(m_versions') = Len(m_versions) + 1
          /\ hist_destroyed' = {} =>
                hist_alive' =
                    {make_entity(0, i) : i \in 0..(Len(m_versions') - 1)}]_vars

\* A second create ran on a world in which nothing was destroyed.
WitnessSecondFreshCreate ==
    /\ last.op = "create"
    /\ hist_destroyed = {}
    /\ index_from_entity(last.ret) >= 1
    /\ Cardinality(hist_alive) >= 2

\* C13: the free list holds the freed indices in the order of their
\* destroys; a create that finds it non-empty returns the index freed last
\* and adds no slot, a create that finds it empty appends a slot.
ReuseIsLifo ==
    [][/\ m_free_list' = hist_freed'
       /\ (last'.op = "create" /\ calls' # calls) =>
            IF hist_freed # <<>>
            THEN /\ index_from_entity(last'.ret) = hist_freed[Len(hist_freed)]
                 /\ Len(m_versions') = Len(m_versions)
            ELSE /\ index_from_entity(last'.ret) = Len(m_versions)
                 /\ Len(m_versions') = Len(m_versions) + 1]_vars

\* Two slots were destroyed and a create reused the one destroyed last,
\* while the one destroyed first is still free.
WitnessReusedInReverseOrder ==
    /\ last.op = "create"
    /\ last.after # NoId
    /\ index_from_entity(last.ret) = index_from_entity(last.after)
    /\ hist_freed # <<>>
    /\ hist_freed[Len(hist_freed)] # index_from_entity(last.ret)

\* The size of the scenario's view of the types ts, and its ids in order.
ScenarioSize(ts) ==
    view_size(CHOOSE v \in views : v.types = ts)

ScenarioIds(ts) ==
    view_begin_end(CHOOSE v \in views : v.types = ts)

\* C14: in the scenario, once C0 is assigned to all entities the view of
\* {C0} has them all and the view of {C0, C1} none; once C1 is assigned to
\* the first half, the views of {C1} and of {C0, C1} have that half, the
\* latter exactly the first half in creation order; once C0 is removed from
\* the first quarter, the view of {C0, C1} has a quarter of the entities and
\* the view of {C0} three quarters.
ScenarioViewSizes ==
    /\ calls = ScenarioAssigned0 =>
            /\ ScenarioSize(<<"C0">>) = 4 * ScenarioQuarter
            /\ ScenarioSize(<<"C0", "C1">>) = 0
    /\ calls = ScenarioAssigned1 =>
            /\ ScenarioSize(<<"C1">>) = 2 * ScenarioQuarter
            /\ ScenarioSize(<<"C0", "C1">>) = 2 * ScenarioQuarter
            /\ ScenarioIds(<<"C0", "C1">>) =
                    [k \in 1..(2 * ScenarioQuarter) |-> ScenarioEntity(k - 1)]
    /\ calls = ScenarioRemoved0 =>
            /\ ScenarioSize(<<"C0", "C1">>) = ScenarioQuarter
            /\ ScenarioSize(<<"C0">>) = 3 * ScenarioQuarter

\* The scenario ran to its end.
WitnessScenarioRan ==
    /\ calls = ScenarioRemoved0
    /\ last.op = "remove"
    /\ ScenarioSize(<<"C1">>) = 2 * ScenarioQuarter

InvalidDestroyIsRejected ==
    [][/\ (last'.op = "destroy" /\ calls' # calls) =>
                valid(World, last'.eid)
       /\ (last'.op \in DestroyInvalid /\ calls' # calls) =>
                World' = World]_vars

\* destroy was rejected for an id destroyed before, whose slot is live again
\* and has a component.
WitnessDestroyedIdRejected ==
    /\ last.op = "destroy_destroyed"
    /\ \E e \in hist_destroyed, T \in Types :
            has(World, T, make_entity(version_from_entity(e) + 1,
                                      index_from_entity(e)))

\* C18: an assign that completes was given a valid id without T; an assign
\* given an invalid id or an id that has T stops at an assert with the type
\* registry, the presence bits, the columns, the groups, the versions and
\* the free list as they were.
RejectedAssignTouchesNothing ==
    [][/\ (last'.op = "assign" /\ calls' # calls) =>
                /\ valid(World, last'.eid)
                /\ ~has(World, last'.types[1], last'.eid)
       /\ (last'.op \in AssignRejections /\ calls' # calls) =>
                World' = World]_vars

\* assign of a type nobody referenced was rejected for an invalid id, in a
\* world with an entity and a group.
WitnessRejectedAssignOfNewType ==
    /\ last.op = "assign_invalid"
    /\ ~contains(World, last.types[1])
    /\ hist_alive # {}
    /\ DOMAIN m_groups # {}

\* C19: a remove<T1, ..., Tn>(id) that stops at an assert leaves the world
\* as it was.
RejectedRemoveTouchesNothing ==
    [][(last'.op = "remove_rejected" /\ calls' # calls) =>
            World' = World]_vars

\* C20: no version decreases; the version of a slot is the number of
\* completed destroys of the slot; a destroy completes only below the
\* largest version and adds one, and a destroy at the largest version stops
\* at the assert with the versions as they were.
VersionCountsDestroys ==
    [][/\ \A i \in 1..Len(m_versions) : m_versions'[i] >= m_versions[i]
       /\ \A i \in 1..Len(m_versions') :
            m_versions'[i] =
                Cardinality({e \in hist_destroyed' :
                                index_from_entity(e) = i - 1})
       /\ (last'.op = "destroy" /\ calls' # calls) =>
            /\ version_from_entity(last'.eid) < MaxVersion
            /\ m_versions'[index_from_entity(last'.eid) + 1] =
                    version_from_entity(last'.eid) + 1
       /\ (last'.op = "destroy_overflow" /\ calls' # calls) =>
            m_versions' = m_versions]_vars

\* A destroy was rejected at the largest version.
WitnessDestroyAtLargestVersion ==
    /\ last.op = "destroy_overflow"
    /\ \E i \in 1..Len(m_versions) :
            /\ m_versions[i] = MaxVersion
            /\ make_entity(MaxVersion - 1, i - 1) \in hist_destroyed

\* C21: a destroy that stops at the assert on the version leaves the
\* presence bits and the groups as they were.
OverflowDestroyHasNotBegun ==
    [][(last'.op = "destroy_overflow" /\ calls' # calls) =>
            /\ m_metabuffers' = m_metabuffers
            /\ m_groups' = m_groups]_vars

\* C22: create stops at its assert only when the free list is empty and
\* the directory holds MaxSlots slots, and then writes nothing; it completes
\* whenever the free list is non-empty or fewer slots exist; the directory
\* never holds more than MaxSlots slots.
CreateFailsOnlyWhenExhausted ==
    [][/\ (last'.op = "create_exhausted" /\ calls' # calls) =>
            /\ m_free_list = <<>>
            /\ Len(m_versions) = MaxSlots
            /\ World' = World
       /\ (m_free_list # <<>> \/ Len(m_versions) < MaxSlots) =>
            create_pre(World)
       /\ (last'.op = "create" /\ calls' # calls) =>
            (m_free_list # <<>> \/ Len(m_versions) < MaxSlots)
       /\ Len(m_versions') <= MaxSlots]_vars

\* create was rejected in a full directory in which an earlier create had
\* recycled a slot.
WitnessCreateExhausted ==
    /\ last.op = "create_exhausted"
    /\ Len(m_versions) = MaxSlots
    /\ \E e \in hist_alive :
            index_from_entity(e) >= 1 /\ version_from_entity(e) >= 1

\* C23: reserve and shrink_to_fit leave has<T>(id) for every id and type,
\* every count, every group, the versions and the free list as they were;
\* the types managed before keep their positions, and shrink_to_fit adds
\* none.
BulkFormsKeepPresence ==
    [][(last'.op \in {"reserve", "shrink_to_fit"} /\ calls' # calls) =>
          /\ \A eid \in IdUniverse, T \in Types :
                has(World', T, eid) = has(World, T, eid)
          /\ \A ts \in TypeLists : count(World', ts) = count(World, ts)
          /\ m_groups' = m_groups
          /\ m_versions' = m_versions
          /\ m_free_list' = m_free_list
          /\ \A T \in DOMAIN m_type_positions :
                /\ T \in DOMAIN m_type_positions'
                /\ m_type_positions'[T] = m_type_positions[T]
          /\ last'.op = "shrink_to_fit" =>
                m_type_positions' = m_type_positions]_vars

\* shrink_to_fit ran on a type an entity owns and a group asks for.
WitnessShrunkOwnedType ==
    /\ last.op = "shrink_to_fit"
    /\ hist_owned # {}
    /\ \E filter \in DOMAIN m_groups : m_groups[filter] # <<>>

BitSetIffSlotConstructed ==
    \A T \in DOMAIN m_type_positions :
        \A idx \in 0..(Len(m_versions) - 1) :
            Bit(m_type_positions[T], idx) <=>
                idx < Len(m_buffers[m_type_positions[T] + 1])

\* C26: clone<Ts...>(original) returns a valid id that was not alive and is
\* not original, which has every type of Ts with the value original had for
\* it when the call was made; original keeps its components, their values
\* and its places in the groups.
CloneCopiesOriginal ==
    [][(last'.op = "clone" /\ calls' # calls) =>
          LET entity == last'.ret
              original == last'.eid
          IN  /\ valid(World', entity)
              /\ entity # original
              /\ entity \notin hist_alive
              /\ \A T \in TypesOf(last'.types) :
                    /\ has(World', T, entity)
                    /\ get(World', T, entity) = get(World, T, original)
              /\ \A T \in Types :
                    /\ has(World', T, original) = has(World, T, original)
                    /\ has(World, T, original) =>
                          get(World', T, original) = get(World, T, original)
              /\ \A filter \in DOMAIN m_groups :
                    sparse_contains(m_groups'[filter], original) =
                        sparse_contains(m_groups[filter], original)]_vars

\* C27: in every reachable state, assign_or_replace<T>(id, args...) on a
\* valid id ends with has<T>(id) and get<T>(id) = T(args...); when id had T
\* already, the presence bits, the groups with their order, the managed
\* types, the versions and the free list are as before.
AssignOrReplaceEndsOwning ==
    \A eid \in IdUniverse, T \in Types, arg \in Args :
        valid(World, eid) =>
            LET w1 == assign_or_replace(World, T, eid, arg) IN
            /\ has(w1, T, eid)
            /\ get(w1, T, eid) = construct(arg)
            /\ has(World, T, eid) =>
                  /\ w1.m_metabuffers = m_metabuffers
                  /\ w1.m_groups = m_groups
                  /\ w1.m_type_positions = m_type_positions
                  /\ w1.m_versions = m_versions
                  /\ w1.m_free_list = m_free_list

\* assign_or_replace has replaced the value of a component whose entity is
\* the first of two in a group.
WitnessReplacedInGroup ==
    /\ last.op = "assign_or_replace"
    /\ last.prior # NoArgs
    /\ last.ret # last.prior
    /\ \E filter \in DOMAIN m_groups :
          /\ Len(m_groups[filter]) = 2
          /\ \E T \in Types :
                /\ has(World, T, m_groups[filter][1])
                /\ has(World, T, m_groups[filter][2])
                /\ get(World, T, m_groups[filter][1]) = last.ret
                /\ get(World, T, m_groups[filter][2]) = last.prior

\* C28: for every managed type T, size<T>() equals count<T>(), and
\* empty<T>() is true exactly when no entity owns a T.
SizeIsCount ==
    \A T \in DOMAIN m_type_positions :
        /\ size(World, T) = count(World, <<T>>)
        /\ empty(World, T) <=> (count(World, <<T>>) = 0)

CreateReturnsUnusedId ==
    [][/\ (last'.op = "create" /\ calls' # calls) => last'.ret \notin hist_alive
       /\ \A i, j \in 1..Len(m_free_list') :
             m_free_list'[i] = m_free_list'[j] => i = j
       /\ \A e \in hist_alive' :
             \A i \in 1..Len(m_free_list') :
                 m_free_list'[i] # index_from_entity(e)]_vars

\* C31: in every reachable state, remove<T>(id) clears T's presence bit at
\* id's index and no other bit, takes id out of the cached groups whose
\* filter includes T and changes the membership of no other id; the groups
\* whose filter excludes T, the cached filters, the managed types, the
\* versions and the free list are as before, and id stays valid.
RemoveTouchesOnlyItsBitAndGroups ==
    \A eid \in IdUniverse, T \in Types :
        remove_pre(World, T, eid) =>
            LET w1 == remove(World, T, eid)
                type_position == m_type_positions[T]
                idx == index_from_entity(eid)
            IN  /\ w1.m_metabuffers =
                      [m_metabuffers EXCEPT ![type_position + 1][idx + 1] = FALSE]
                /\ DOMAIN w1.m_groups = DOMAIN m_groups
                /\ \A filter \in DOMAIN m_groups :
                      IF type_position \in filter_bits(filter)
                      THEN sparse_ids(w1.m_groups[filter]) =
                               sparse_ids(m_groups[filter]) \ {eid}
                      ELSE w1.m_groups[filter] = m_groups[filter]
                /\ w1.m_type_positions = m_type_positions
                /\ w1.m_versions = m_versions
                /\ w1.m_free_list = m_free_list
                /\ valid(w1, eid)

\* remove has taken a type from an entity that is still in the group of
\* another type and no longer in a group of the removed one.
WitnessRemovedFromOneGroupOnly ==
    /\ last.op = "remove"
    /\ \E e \in hist_alive, f1, f2 \in DOMAIN m_groups :
          /\ sparse_contains(m_groups[f1], e)
          /\ ~sparse_contains(m_groups[f2], e)
          /\ \E T \in Types : <<e, T>> \in hist_owned

\* C32: in every reachable state, assign<T>(id) puts id into the cached
\* groups whose filter includes T and whose other types id already has,
\* and into no other; the groups whose filter excludes T, the membership
\* and order of the other ids, the cached filters, the presence bits of the
\* other types and of the other entities, the versions and the free list
\* are as before.
AssignAdmitsToTheSatisfiedGroups ==
    \A eid \in IdUniverse, T \in Types :
        assign_pre(World, T, eid) =>
            LET w1 == assign(World, T, eid, NoArgs)
                type_position == w1.m_type_positions[T]
                idx == index_from_entity(eid)
            IN  /\ DOMAIN w1.m_groups = DOMAIN m_groups
                /\ \A filter \in DOMAIN m_groups :
                      IF /\ type_position \in filter_bits(filter)
                         /\ \A q \in filter_bits(filter) \ {type_position} :
                               Bit(q, idx)
                      THEN /\ ~sparse_contains(m_groups[filter], eid)
                           /\ w1.m_groups[filter] = Append(m_groups[filter], eid)
                      ELSE w1.m_groups[filter] = m_groups[filter]
                /\ \A T2 \in DOMAIN m_type_positions :
                      /\ w1.m_type_positions[T2] = m_type_positions[T2]
                      /\ \A i \in 0..(Len(m_versions) - 1) :
                            (T2 # T \/ i # idx) =>
                                (dtl_contains(w1.m_metabuffers[m_type_positions[T2] + 1], i)
                                    <=> Bit(m_type_positions[T2], i))
                /\ \A i \in 0..(Len(m_versions) - 1) :
                      dtl_contains(w1.m_metabuffers[type_position + 1], i) =>
                          (i = idx \/ (contains(World, T) /\ Bit(type_position, i)))
                /\ w1.m_versions = m_versions
                /\ w1.m_free_list = m_free_list

\* assign has put an entity into the group of the assigned type alone and
\* not into the group that asks for a second type the entity lacks.
WitnessAssignedIntoOneGroupOnly ==
    /\ last.op = "assign"
    /\ \E f1, f2 \in DOMAIN m_groups :
          /\ m_type_positions[last.types[1]] \in filter_bits(f1) \cap filter_bits(f2)
          /\ sparse_contains(m_groups[f1], last.eid)
          /\ ~sparse_contains(m_groups[f2], last.eid)

\* C33: no step takes a filter out of the group cache, and a view call
\* that adds no filter to the cache, its filter being cached already,
\* leaves every cached group as it is: the directory is scanned for a
\* filter only when the filter enters the cache.
GroupCacheOnlyGrows ==
    [][/\ DOMAIN m_groups \subseteq DOMAIN m_groups'
       /\ (last'.op = "view" /\ calls' # calls
                /\ DOMAIN m_groups' = DOMAIN m_groups) =>
             m_groups' = m_groups]_vars

\* The second and third call of a program ask for views of the same two
\* types in the two orders: the second view found the group cached, with
\* the entity in it.
WitnessSecondViewFoundGroup ==
    /\ last.op = "view"
    /\ calls = 3
    /\ Len(m_versions) = 1
    /\ Cardinality(DOMAIN m_groups) = 1
    /\ \E v1, v2 \in views :
          /\ v1.types # v2.types
          /\ v1.m_entities = v2.m_entities
          /\ view_size(v1) = 1

Directory(w) == <<w.m_versions, w.m_free_list>>

\* A second world that went through the same creates and destroys, every
\* create a plain create(), and through no other call.
DirectoryTwin ==
    [m_free_list |-> m_free_list, m_versions |-> m_versions,
     m_type_positions |-> <<>>, m_metabuffers |-> <<>>, m_buffers |-> <<>>,
     m_groups |-> <<>>]

\* C36: in every reachable state, assign, assign_or_replace, remove, orphan,
\* reserve, shrink_to_fit and view leave m_versions and m_free_list as they
\* are; create is possible, returns the same id and leaves the same versions
\* and free list as in a world with the same versions and free list and no
\* components, types or groups, whatever types the create assigns; and
\* destroy accepts the same ids and leaves the same versions and free list
\* in both.  So two worlds taken through the same creates and destroys
\* return the same ids, whatever else is called in between.
IdsDependOnlyOnCreatesAndDestroys ==
    /\ \A eid \in IdUniverse, T \in Types, arg \in Args :
          /\ assign_pre(World, T, eid) =>
                Directory(assign(World, T, eid, arg)) = Directory(World)
          /\ valid(World, eid) =>
                Directory(assign_or_replace(World, T, eid, arg)) =
                    Directory(World)
          /\ remove_pre(World, T, eid) =>
                Directory(remove(World, T, eid)) = Directory(World)
          /\ valid(World, eid) =>
                Directory(orphan(World, eid)) = Directory(World)
    /\ \A ts \in TypeLists :
          /\ Directory(reserve(World, ts)) = Directory(World)
          /\ shrink_to_fit_pre(World, ts) =>
                Directory(shrink_to_fit(World, ts)) = Directory(World)
          /\ \A order \in Orders(ts) :
                LET w1 == accommodate_each(World, order)
                IN  Directory(group_by(w1, positions_of(w1, ts))) =
                        Directory(World)
    /\ create_pre(World) = create_pre(DirectoryTwin)
    /\ create_pre(World) =>
          /\ create_entity(World) = create_entity(DirectoryTwin)
          /\ \A ts \in TypeLists \cup {<<>>} :
                assign_each_pre(create_world(World), ts,
                                create_entity(World)) =>
                    Directory(assign_each(create_world(World), ts,
                                          create_entity(World))) =
                        Directory(create_world(DirectoryTwin))
    /\ \A eid \in IdUniverse :
          /\ destroy_pre(World, eid) = destroy_pre(DirectoryTwin, eid)
          /\ destroy_pre(World, eid) =>
                Directory(destroy(World, eid)) =
                    Directory(destroy(DirectoryTwin, eid))

\* create has returned a recycled id in a world where a view was requested
\* and components were assigned since the first create.
WitnessRecycledIdAmongComponents ==
    /\ last.op = "create"
    /\ version_from_entity(last.ret) > 0
    /\ DOMAIN m_groups # {}
    /\ hist_owned # {}

\* C37: in every reachable state, orphan(id) on an id that passes valid
\* leaves has<T>(id) false for every type and id in no group, id still
\* valid with its version, the index of id not in the free list, the
\* versions and the free list as they were, and the presence bits and the
\* group memberships of every other id unchanged.
OrphanTakesAllAndNothingElse ==
    \A eid \in IdUniverse :
        valid(World, eid) =>
            LET w1 == orphan(World, eid)
                idx == index_from_entity(eid)
            IN  /\ \A T \in Types : ~has(w1, T, eid)
                /\ \A filter \in DOMAIN w1.m_groups :
                      ~sparse_contains(w1.m_groups[filter], eid)
                /\ valid(w1, eid)
                /\ w1.m_versions = m_versions
                /\ w1.m_free_list = m_free_list
                /\ \A i \in 1..Len(w1.m_free_list) : w1.m_free_list[i] # idx
                /\ w1.m_type_positions = m_type_positions
                /\ DOMAIN w1.m_groups = DOMAIN m_groups
                /\ \A p \in 1..Len(m_metabuffers) :
                      /\ Len(w1.m_metabuffers[p]) = Len(m_metabuffers[p])
                      /\ \A i \in 1..Len(m_metabuffers[p]) :
                            i # idx + 1 =>
                                w1.m_metabuffers[p][i] = m_metabuffers[p][i]
                /\ \A filter \in DOMAIN m_groups :
                      sparse_ids(w1.m_groups[filter]) =
                          sparse_ids(m_groups[filter]) \ {eid}

\* Whether block k of the buffer owns a chunk.
allocated(b, k) == k < Len(b.m_blocks) /\ b.m_blocks[k + 1] # nullptr

\* C38: in every reachable state, accommodate(index) leaves the block of
\* index owning a chunk, so that data(index) and data(j) for every j of the
\* same chunk pass their assert, and every other block owning a chunk
\* exactly if it did before.
AccommodateAllocatesOnlyItsChunk ==
    \A index \in 0..MaxIndex :
        LET b1 == buffer_accommodate(chunked_buffer, index) IN
        /\ allocated(b1, block(chunked_buffer, index))
        /\ \A j \in 0..MaxIndex :
              block(chunked_buffer, j) = block(chunked_buffer, index) =>
                  /\ data_pre(b1, j)
                  /\ data(b1, j)[1] \in DOMAIN b1.heap
        /\ \A k \in 0..MaxIndex :
              k # block(chunked_buffer, index) =>
                  allocated(b1, k) = allocated(chunked_buffer, k)

\* accommodate has allocated the chunk of an index beyond the first chunk
\* while the first block owns none.
WitnessAccommodatedBeyondFirstChunk ==
    /\ last.op = "buffer_accommodate"
    /\ block(chunked_buffer, last.arg) > 0
    /\ chunked_buffer.allocations > last.prior
    /\ allocated(chunked_buffer, block(chunked_buffer, last.arg))
    /\ ~allocated(chunked_buffer, 0)

\* C39: in every reachable state, reserve(n) leaves every block up to and
\* including the block of index n owning a chunk: data(i) passes its assert
\* for every i <= n.
ReserveAllocatesThroughN ==
    \A n \in 0..MaxIndex :
        LET b1 == buffer_reserve(chunked_buffer, n) IN
        \A i \in 0..n : data_pre(b1, i)

\* C40: in every reachable state, accommodate and reserve leave every block
\* that owns a chunk owning the chunk at the same address, the chunk
\* allocated and its objects as they were.
AllocatedChunksStay ==
    \A index \in 0..MaxIndex :
        \A b1 \in {buffer_accommodate(chunked_buffer, index),
                   buffer_reserve(chunked_buffer, index)} :
            \A k \in 0..MaxIndex :
                allocated(chunked_buffer, k) =>
                    LET address == chunked_buffer.m_blocks[k + 1] IN
                    /\ b1.m_blocks[k + 1] = address
                    /\ address \in DOMAIN b1.heap
                    /\ b1.heap[address] = chunked_buffer.heap[address]

\* accommodate or reserve has allocated a chunk while an older chunk held
\* an object constructed in it.
WitnessAllocatedBesideObjects ==
    /\ last.op \in {"buffer_accommodate", "buffer_reserve"}
    /\ chunked_buffer.allocations > last.prior
    /\ \E address \in DOMAIN chunked_buffer.heap :
          /\ address <= last.prior
          /\ \E o \in 1..chunked_buffer.m_chunk_size :
                chunked_buffer.heap[address][o] # 0

====
